---- MODULE Spec2Model ----
(***************************************************************************)
(* A model of find-guardduty-user (main.go): the `find` command walks the  *)
(* GuardDuty detectors, pages through each detector's findings, and for    *)
(* every finding resolves the role ARN and the username behind it through  *)
(* CloudTrail lookups, printing one record per resolved finding.           *)
(*                                                                         *)
(* The program is sequential.  Every remote call is one action: the call,  *)
(* the answer the service gives (drawn from a small set) and all the local *)
(* code that runs until the next remote call or the end of the loop        *)
(* iteration.  pc names the statement the program is about to execute.     *)
(***************************************************************************)
EXTENDS Integers, Sequences, FiniteSets, TLC

\* ---------------------------------------------------------------- bounds
\* Detectors ListDetectors may return.
MaxDetectors == 2
\* Findings the Finding Source holds in total (over all detectors and pages).
MaxFindings == 2
\* ListFindings requests that fail during one run.
MaxFailures == 1

\* ------------------------------------------------------------ Go values
\* A nil *string; distinct from the empty string.
Nil == "<nil>"

\* aws.StringValue: the string a pointer points to, "" for nil.
StringValue(p) == IF p = Nil THEN "" ELSE p

\* The zero value of the range variables before the first iteration.
NoDetector == 0

VARIABLES
    cfg,                    \* the viper configuration: partition, region, output
    pc,                     \* the statement about to run
    detectors,              \* detectors.DetectorIds still to walk
    detectorID,             \* the detector being walked
    listFindingsNextToken,  \* the paging token of the current detector
    findingIds,             \* findingList.FindingIds of the current page
    findings,               \* findings of the current page still to walk
    finding,                \* the finding of the current iteration
    roleArn,                \* local of the current iteration
    username,               \* local of the current iteration
    out,                    \* the lines written to standard output
    called,                 \* whether anything outside the process was asked
    calls,                  \* GuardDuty paging calls made for detectorID
    lookups,                \* CloudTrail lookups made for `finding`
    nextId,                 \* findings the Finding Source has listed so far
    failures                \* ListFindings requests that have failed so far

vars == <<cfg, pc, detectors, detectorID, listFindingsNextToken, findingIds,
          findings, finding, roleArn, username, out, called, calls, lookups,
          nextId, failures>>

\* ------------------------------------------------------- configuration
\* Values the flags (or their environment overrides) can carry.
Partitions == {"aws", "mars", ""}
Regions == {"us-west-2", "cn-north-1", ""}
Outputs == {"json", "text", "xml"}

\* endpoints.RegionsForService(DefaultPartitions(), p, "guardduty"): the
\* regions of partition p that offer GuardDuty, and whether p is known.
RegionsForService(p) ==
    CASE p = "aws"    -> [ok |-> TRUE, regions |-> {"us-west-2", "us-east-1"}]
      [] p = "aws-cn" -> [ok |-> TRUE, regions |-> {"cn-north-1"}]
      [] OTHER        -> [ok |-> FALSE, regions |-> {}]

checkRegion(v) ==
    LET rs == RegionsForService(v.partition) IN
    IF ~rs.ok THEN "could not find regions for service guardduty"
    ELSE IF v.partition = "" THEN "aws-guardduty-partition is invalid"
    ELSE IF v.region = "" THEN "aws-guardduty-region is invalid"
    ELSE IF v.region \notin rs.regions THEN "aws-guardduty-region is invalid"
    ELSE Nil

checkOutputAny(v) == Nil

checkOutput(v) ==
    IF v.output \notin {"text", "json"} THEN "output is invalid" ELSE Nil

checkConfig(v) ==
    IF checkRegion(v) # Nil THEN "Region check failed"
    ELSE IF checkOutput(v) # Nil THEN "Output check failed"
    ELSE Nil

\* ------------------------------------------------------------ CloudTrail
\* A value found under a key of a decoded JSON object: missing, a string, or
\* something that is not a string (a number, null, an array).
JAbsent == [t |-> "absent", s |-> ""]
JOther == [t |-> "other", s |-> ""]
JStr(s) == [t |-> "string", s |-> s]

\* data["userIdentity"]: missing, not an object, or an object with its "arn"
\* and "userName" members.
NoIdentity == [t |-> "absent", arn |-> JAbsent, userName |-> JAbsent]
ScalarIdentity == [t |-> "other", arn |-> JAbsent, userName |-> JAbsent]
Identity(arn, name) == [t |-> "object", arn |-> arn, userName |-> name]

\* Event.CloudTrailEvent: text that is no JSON object, or a JSON object.
Garbage == [wellFormed |-> FALSE, userIdentity |-> NoIdentity]
Payload(ui) == [wellFormed |-> TRUE, userIdentity |-> ui]

RoleARN == "arn:aws:iam::111:role/X"

Payloads ==
    { Garbage,
      Payload(NoIdentity),
      Payload(ScalarIdentity),
      Payload(Identity(JAbsent, JStr("bob"))),
      Payload(Identity(JOther, JStr("bob"))),
      Payload(Identity(JStr(""), JAbsent)),
      Payload(Identity(JStr(RoleARN), JAbsent)),
      Payload(Identity(JStr(RoleARN), JOther)),
      Payload(Identity(JStr(RoleARN), JStr(""))),
      Payload(Identity(JStr(RoleARN), JStr("bob"))) }

Event(text, user) == [CloudTrailEvent |-> text, Username |-> user]

\* The events a lookup can return: every payload, with the top-level Username
\* field (nil when CloudTrail recorded none) unset, and the two payloads that
\* name a role, with and without a userName of their own, under a top-level
\* Username.
Events ==
    {Event(text, Nil) : text \in Payloads}
    \cup {Event(Payload(Identity(JStr(RoleARN), JAbsent)), "alice"),
          Event(Payload(Identity(JStr(RoleARN), JStr("bob"))), "alice")}

NoEvent == Event(Garbage, Nil)

\* Two events that each would resolve on their own.
TwoEvents ==
    LET e == Event(Payload(Identity(JStr(RoleARN), JStr("bob"))), "alice")
    IN <<e, e>>

\* What serviceCloudTrail.LookupEvents can answer: an error, or its events.
LookupResponses ==
    {[err |-> TRUE, events |-> <<>>]}
    \cup {[err |-> FALSE, events |-> es] :
            es \in {<<>>, TwoEvents} \cup {<<e>> : e \in Events}}

\* json.Unmarshal([]byte(dataStr), &data)
Unmarshal(text) ==
    IF text.wellFormed
    THEN [err |-> Nil, data |-> text.userIdentity]
    ELSE [err |-> "invalid character", data |-> NoIdentity]

LookupEventFirst(resp) ==
    IF resp.err THEN [event |-> NoEvent, err |-> "LookupEvents failed"]
    ELSE IF Len(resp.events) = 0
    THEN [event |-> NoEvent, err |-> "Expected exactly one event"]
    ELSE [event |-> resp.events[1], err |-> Nil]

LookupEvent(resp) ==
    IF resp.err THEN [event |-> NoEvent, err |-> "LookupEvents failed"]
    ELSE IF Len(resp.events) # 1
    THEN [event |-> NoEvent, err |-> "Expected exactly one event"]
    ELSE [event |-> resp.events[1], err |-> Nil]

Failed(e) == [roleArn |-> Nil, username |-> Nil, err |-> e]

GetRoleAndUser(resp) ==
    LET l == LookupEvent(resp)
        j == Unmarshal(l.event.CloudTrailEvent)
        userIdentity == j.data
    IN  IF l.err # Nil THEN Failed("Unable to find CloudTrail event")
        ELSE IF j.err # Nil THEN Failed("Unable to unmarshal JSON data")
        ELSE IF userIdentity.t # "object"
        THEN Failed("Could not retrieve userIdentity from JSON object")
        ELSE IF userIdentity.arn.t # "string"
        THEN Failed("Could not retrieve arn from JSON object")
        ELSE [roleArn |-> userIdentity.arn.s,
              username |-> IF userIdentity.userName.t = "string"
                           THEN userIdentity.userName.s ELSE "",
              err |-> Nil]

GetUserStrict(resp) ==
    LET l == LookupEvent(resp)
    IN  IF l.err # Nil \/ l.event.Username = Nil
        THEN [username |-> Nil, err |-> "Unable to find CloudTrail event for role arn"]
        ELSE [username |-> l.event.Username, err |-> Nil]

GetUserFromPayload(resp) ==
    LET r == GetRoleAndUser(resp)
    IN  [username |-> r.username, err |-> r.err]

GetUser(resp) ==
    LET l == LookupEvent(resp)
    IN  IF l.err # Nil
        THEN [username |-> Nil, err |-> "Unable to find CloudTrail event for role arn"]
        ELSE [username |-> StringValue(l.event.Username), err |-> Nil]

\* -------------------------------------------------------------- findings
SentinelAccessKeyId == "GeneratedFindingAccessKeyId"
SentinelPrincipalId == "GeneratedFindingPrincipalId"

AccessKeyIds == {Nil, "", SentinelAccessKeyId, "AKIA123"}
PrincipalIds == {Nil, "", SentinelPrincipalId, "AIDA456"}

\* No finding: the value of the loop variable before the first iteration, and
\* a nil element of findings.Findings.
NilFinding ==
    [isNil |-> TRUE, Id |-> 0, AccessKeyDetails |-> FALSE,
     AccessKeyId |-> Nil, PrincipalId |-> Nil, Service |-> "nil"]

\* The findings GetFindings can return for identifier id.  Service is "nil",
\* "complete" (every nested member the code dereferences is there) or
\* "incomplete" (Service is set, a nested member is nil).
FindingsFor(id) ==
    {NilFinding}
    \cup {[isNil |-> FALSE, Id |-> id, AccessKeyDetails |-> FALSE,
           AccessKeyId |-> Nil, PrincipalId |-> Nil, Service |-> "complete"]}
    \cup {[isNil |-> FALSE, Id |-> id, AccessKeyDetails |-> TRUE,
           AccessKeyId |-> a, PrincipalId |-> p, Service |-> "complete"] :
            a \in AccessKeyIds, p \in PrincipalIds}
    \cup {[isNil |-> FALSE, Id |-> id, AccessKeyDetails |-> TRUE,
           AccessKeyId |-> "AKIA123", PrincipalId |-> Nil, Service |-> s] :
            s \in {"nil", "incomplete"}}

\* fd := FindingDetail{...}: the fields the resolution reads.
FindingDetail(f) ==
    [ID |-> f.Id, AccessKeyID |-> f.AccessKeyId, PrincipalID |-> f.PrincipalId]

NoReference == [key |-> Nil, value |-> Nil]

CredentialReferencePrincipalFirst(fd) ==
    IF fd.PrincipalID # Nil /\ fd.PrincipalID # ""
       /\ fd.PrincipalID # SentinelPrincipalId
    THEN [key |-> "ResourceName", value |-> fd.PrincipalID]
    ELSE IF fd.AccessKeyID # Nil /\ fd.AccessKeyID # ""
            /\ fd.AccessKeyID # SentinelAccessKeyId
    THEN [key |-> "AccessKeyId", value |-> fd.AccessKeyID]
    ELSE NoReference

CredentialReferenceNoSentinel(fd) ==
    IF fd.AccessKeyID # Nil /\ fd.AccessKeyID # ""
    THEN [key |-> "AccessKeyId", value |-> fd.AccessKeyID]
    ELSE IF fd.PrincipalID # Nil /\ fd.PrincipalID # ""
    THEN [key |-> "ResourceName", value |-> fd.PrincipalID]
    ELSE NoReference

\* The key and value of the first lookup: the if / else if / else of the
\* finding loop.
CredentialReference(fd) ==
    IF fd.AccessKeyID # Nil /\ fd.AccessKeyID # ""
       /\ fd.AccessKeyID # SentinelAccessKeyId
    THEN [key |-> "AccessKeyId", value |-> fd.AccessKeyID]
    ELSE IF fd.PrincipalID # Nil /\ fd.PrincipalID # ""
            /\ fd.PrincipalID # SentinelPrincipalId
    THEN [key |-> "ResourceName", value |-> fd.PrincipalID]
    ELSE NoReference

\* ---------------------------------------------------------------- output
\* A line of standard output.  Of a printed finding the model keeps the
\* identifier, the role ARN and the username; the other fields are copied
\* from the finding unchanged.
ErrorLine(msg) ==
    [kind |-> "error", id |-> 0, assumeRoleARN |-> Nil, username |-> Nil,
     msg |-> msg]

PanicLine ==
    [kind |-> "panic", id |-> 0, assumeRoleARN |-> Nil, username |-> Nil,
     msg |-> "invalid memory address or nil pointer dereference"]

\* json.Marshal renders a nil *string as null and any other as its string.
PrintJSON(id, arn, user) ==
    [kind |-> "json", id |-> id, assumeRoleARN |-> arn, username |-> user,
     msg |-> ""]

\* FindingDetail.Print: the text template renders every pointer through
\* aws.StringValue.
PrintText(id, arn, user) ==
    [kind |-> "text", id |-> id, assumeRoleARN |-> StringValue(arn),
     username |-> StringValue(user), msg |-> ""]

PrintFinding(id, arn, user) ==
    IF cfg.output = "json" THEN PrintJSON(id, arn, user)
    ELSE PrintText(id, arn, user)

IsRecord(line) == line.kind \in {"json", "text"}

\* The NextToken of a ListFindings answer after which the source has listed n
\* findings: absent, empty, or a token naming where the listing goes on.
Tokens(n) == {Nil, "", "t" \o ToString(n)}

\* ------------------------------------------------------------- the run
Init ==
    /\ cfg \in [partition : Partitions, region : Regions, output : Outputs]
    /\ pc = "checkConfig"
    /\ detectors = <<>>
    /\ detectorID = NoDetector
    /\ listFindingsNextToken = Nil
    /\ findingIds = <<>>
    /\ findings = <<>>
    /\ finding = NilFinding
    /\ roleArn = Nil
    /\ username = Nil
    /\ out = <<>>
    /\ called = FALSE
    /\ calls = <<>>
    /\ lookups = <<>>
    /\ nextId = 0
    /\ failures = 0

walk == <<detectors, detectorID, listFindingsNextToken>>
page == <<findingIds, findings>>
iteration == <<finding, roleArn, username, lookups>>

\* The finding loop's variables are out of scope outside the loop.
OutOfFindingLoop ==
    /\ finding' = NilFinding
    /\ roleArn' = Nil
    /\ username' = Nil
    /\ lookups' = <<>>
source == <<nextId, failures>>

\* logger.Fatal: the line is written and the process exits.
Fatal(msg) ==
    /\ out' = Append(out, ErrorLine(msg))
    /\ pc' = "fatal"

\* checkConfig(v), and the return of its error.
CheckConfig ==
    /\ pc = "checkConfig"
    /\ pc' = IF checkConfig(cfg) # Nil THEN "configError" ELSE "credentials"
    /\ UNCHANGED <<cfg, walk, page, iteration, source, out, called, calls>>

\* creds.Get()
GetCredentials ==
    /\ pc = "credentials"
    /\ called' = TRUE
    /\ \E ok \in BOOLEAN :
         IF ok THEN pc' = "session" /\ out' = out
         ELSE Fatal("error creating aws config")
    /\ UNCHANGED <<cfg, walk, page, iteration, source, calls>>

\* awssession.NewSession(awsConfig)
NewSession ==
    /\ pc = "session"
    /\ called' = TRUE
    /\ \E ok \in BOOLEAN :
         IF ok THEN pc' = "listDetectors" /\ out' = out
         ELSE Fatal("error creating aws session")
    /\ UNCHANGED <<cfg, walk, page, iteration, source, calls>>

DeclareTokenKept(tok) == tok

\* var listFindingsNextToken *string, at the top of the detector loop's body.
DeclareToken(tok) == Nil

\* for _, detectorID := range ...: the next detector, or the return.  tok is
\* the paging token at this point.
WalkDetectors(ds, tok) ==
    IF ds = <<>>
    THEN /\ pc' = "done"
         /\ detectors' = <<>>
         /\ detectorID' = detectorID
         /\ listFindingsNextToken' = tok
    ELSE /\ pc' = "listFindings"
         /\ detectors' = Tail(ds)
         /\ detectorID' = Head(ds)
         /\ listFindingsNextToken' = DeclareToken(tok)

\* The test that ends the page loop's body.
EndOfPage(tok) ==
    IF tok = Nil \/ tok = ""
    THEN WalkDetectors(detectors, tok)
    ELSE /\ pc' = "listFindings"
         /\ listFindingsNextToken' = tok
         /\ UNCHANGED <<detectors, detectorID>>

NextFindingReversed(rest) ==
    IF rest # <<>>
    THEN /\ pc' = "finding"
         /\ findings' = [i \in 1..Len(rest) |-> rest[Len(rest) + 1 - i]]
         /\ UNCHANGED walk
    ELSE /\ findings' = <<>>
         /\ EndOfPage(listFindingsNextToken)

\* for _, finding := range findings.Findings: the next finding, or the code
\* after the loop.
NextFinding(rest) ==
    IF rest # <<>>
    THEN /\ pc' = "finding"
         /\ findings' = rest
         /\ UNCHANGED walk
    ELSE /\ findings' = <<>>
         /\ EndOfPage(listFindingsNextToken)

\* serviceGuardDuty.ListDetectors
ListDetectors ==
    /\ pc = "listDetectors"
    /\ called' = TRUE
    /\ \E ok \in BOOLEAN, n \in 0..MaxDetectors :
         IF ok
         THEN /\ WalkDetectors([i \in 1..n |-> i], Nil)
              /\ out' = out
         ELSE /\ Fatal("Unable to list Guard Duty detectors")
              /\ UNCHANGED walk
    /\ UNCHANGED <<cfg, page, iteration, source, calls>>

\* The paging calls made so far for the detector being walked.
CallsOfDetector ==
    IF calls # <<>> /\ calls[1].detector # detectorID THEN <<>> ELSE calls

Call(op, tok, ids, ok, returned) ==
    [op |-> op, detector |-> detectorID, token |-> tok, ids |-> ids,
     ok |-> ok, returned |-> returned]

\* serviceGuardDuty.ListFindings fails: the error is logged and the page loop
\* continues.
ListFindingsError ==
    /\ pc = "listFindings"
    /\ failures < MaxFailures
    /\ failures' = failures + 1
    /\ called' = TRUE
    /\ out' = Append(out, ErrorLine("Unable to list Guard Duty findings"))
    /\ calls' = Append(CallsOfDetector,
                       Call("ListFindings", listFindingsNextToken, <<>>, FALSE, Nil))
    /\ OutOfFindingLoop
    /\ UNCHANGED <<cfg, pc, walk, page, nextId>>

\* serviceGuardDuty.ListFindings answers with n identifiers and a token.
ListFindingsOk ==
    /\ pc = "listFindings"
    /\ called' = TRUE
    /\ \E n \in 0..(MaxFindings - nextId) :
       \E tok \in Tokens(nextId + n) :
         LET ids == [i \in 1..n |-> nextId + i] IN
         /\ nextId' = nextId + n
         /\ calls' = Append(CallsOfDetector,
                            Call("ListFindings", listFindingsNextToken, <<>>, TRUE, tok))
         /\ findingIds' = ids
         /\ IF n = 0
            THEN /\ WalkDetectors(detectors, tok)
                 /\ findings' = findings
            ELSE /\ pc' = "getFindings"
                 /\ listFindingsNextToken' = tok
                 /\ UNCHANGED <<detectors, detectorID, findings>>
    /\ OutOfFindingLoop
    /\ UNCHANGED <<cfg, failures, out>>

\* serviceGuardDuty.GetFindings fails: the error is logged, the output holds
\* no finding, and the code after the finding loop runs.
GetFindingsError ==
    /\ pc = "getFindings"
    /\ called' = TRUE
    /\ out' = Append(out, ErrorLine("Unable to retrieve Guard Duty findings"))
    /\ calls' = Append(calls, Call("GetFindings", Nil, findingIds, FALSE, Nil))
    /\ NextFinding(<<>>)
    /\ UNCHANGED <<cfg, findingIds, iteration, source>>

\* serviceGuardDuty.GetFindings answers with one finding per identifier, in
\* the order asked.  `findings` holds their identifiers; the fields of a
\* finding are what the service fixed, and are drawn when the loop first
\* reads them.
GetFindingsOk ==
    /\ pc = "getFindings"
    /\ called' = TRUE
    /\ calls' = Append(calls, Call("GetFindings", Nil, findingIds, TRUE, Nil))
    /\ NextFinding(findingIds)
    /\ UNCHANGED <<cfg, findingIds, iteration, source, out>>

HasRoleAlways(arn) == TRUE

\* The negation of `roleArn == nil || *roleArn == ""`.
HasRole(arn) == arn # Nil /\ arn # ""

LacksUserNilOnly(user) == user = Nil

\* username == nil || *username == ""
LacksUser(user) == user = Nil \/ user = ""

Lookup(key, value, resp) == [key |-> key, value |-> value, resp |-> resp]

\* The head of the finding loop's body, up to the first CloudTrail lookup:
\* nil findings and findings without access-key details are skipped, the
\* FindingDetail is built (a Service with a nil nested member makes that a nil
\* dereference, which the deferred recover prints before the command
\* returns), and a finding without a usable credential reference is skipped.
ProcessFinding ==
    /\ pc = "finding"
    /\ \E f \in FindingsFor(Head(findings)) :
         LET rest == Tail(findings) IN
         /\ finding' = f
         /\ roleArn' = Nil
         /\ username' = Nil
         /\ lookups' = <<>>
         /\ IF f.isNil \/ ~f.AccessKeyDetails
            THEN /\ out' = out
                 /\ NextFinding(rest)
            ELSE IF f.Service = "incomplete"
            THEN /\ out' = Append(out, PanicLine)
                 /\ pc' = "panicked"
                 /\ findings' = rest
                 /\ UNCHANGED walk
            ELSE IF CredentialReference(FindingDetail(f)) = NoReference
            THEN /\ out' = out
                 /\ NextFinding(rest)
            ELSE /\ out' = out
                 /\ pc' = "getRoleAndUser"
                 /\ findings' = rest
                 /\ UNCHANGED walk
    /\ UNCHANGED <<cfg, findingIds, source, called, calls>>

\* GetRoleAndUser(&key, value, serviceCloudTrail) with the finding's
\* credential reference, and the code that follows it up to GetUser or to the
\* end of the iteration.
ResolveRoleAndUser ==
    /\ pc = "getRoleAndUser"
    /\ called' = TRUE
    /\ \E resp \in LookupResponses :
         LET ref == CredentialReference(FindingDetail(finding))
             r == GetRoleAndUser(resp)
         IN
         /\ lookups' = Append(lookups, Lookup(ref.key, ref.value, resp))
         /\ roleArn' = r.roleArn
         /\ username' = r.username
         /\ IF r.err # Nil
            THEN /\ out' = Append(out, ErrorLine(
                             IF ref.key = "AccessKeyId"
                             THEN "Unable to find role arn and username from access key in finding"
                             ELSE "Unable to find role arn and username from principal ID in finding"))
                 /\ NextFinding(findings)
            ELSE IF ~HasRole(r.roleArn)
            THEN /\ out' = out
                 /\ NextFinding(findings)
            ELSE IF LacksUser(r.username)
            THEN /\ out' = out
                 /\ pc' = "getUser"
                 /\ UNCHANGED <<walk, findings>>
            ELSE /\ out' = Append(out, PrintFinding(finding.Id, r.roleArn, r.username))
                 /\ NextFinding(findings)
    /\ UNCHANGED <<cfg, findingIds, finding, source, calls>>

\* GetUser(roleArn, serviceCloudTrail), and the rest of the iteration.
ResolveUser ==
    /\ pc = "getUser"
    /\ called' = TRUE
    /\ \E resp \in LookupResponses :
         LET u == GetUser(resp) IN
         /\ lookups' = Append(lookups, Lookup("ResourceName", roleArn, resp))
         /\ username' = u.username
         /\ IF u.err # Nil
            THEN out' = Append(out, ErrorLine("Unable to find role username from role arn"))
            ELSE out' = Append(out, PrintFinding(finding.Id, roleArn, u.username))
         /\ NextFinding(findings)
    /\ UNCHANGED <<cfg, findingIds, finding, roleArn, source, calls>>

Next ==
    \/ CheckConfig
    \/ GetCredentials
    \/ NewSession
    \/ ListDetectors
    \/ ListFindingsError
    \/ ListFindingsOk
    \/ GetFindingsError
    \/ GetFindingsOk
    \/ ProcessFinding
    \/ ResolveRoleAndUser
    \/ ResolveUser

Spec == Init /\ [][Next]_vars

\* ===================================================== properties
\* The positions at which the iteration for `finding` still has a CloudTrail
\* lookup to make.
Resolving == pc \in {"getRoleAndUser", "getUser"}

\* The lines of `out` that are printed findings with identifier id.
RecordsFor(id) == {i \in 1..Len(out) : IsRecord(out[i]) /\ out[i].id = id}

Unusable(p, sentinel) == p = Nil \/ p = "" \/ p = sentinel

\* A finding is being, or was last, processed, and carries access-key details.
HasDetails == ~finding.isNil /\ finding.AccessKeyDetails

\* What a LookupEvents answer says, read off the answer itself.
ExactlyOne(resp) == ~resp.err /\ Len(resp.events) = 1
IdentityOf(resp) == resp.events[1].CloudTrailEvent.userIdentity
YieldsArn(resp) ==
    /\ ExactlyOne(resp)
    /\ resp.events[1].CloudTrailEvent.wellFormed
    /\ IdentityOf(resp).t = "object"
    /\ IdentityOf(resp).arn.t = "string"
ArnOf(resp) == IdentityOf(resp).arn.s
NamesUser(resp) ==
    IdentityOf(resp).userName.t = "string" /\ IdentityOf(resp).userName.s # ""

\* C1: a finding whose access-key identifier is absent (with or without
\* access-key details), empty or the sentinel and whose principal identifier
\* is absent, empty or the sentinel gets no audit lookup and no output record.
C1_PlaceholderSkipped ==
    (/\ ~finding.isNil
     /\ Unusable(finding.AccessKeyId, SentinelAccessKeyId)
     /\ Unusable(finding.PrincipalId, SentinelPrincipalId))
    => /\ lookups = <<>>
       /\ ~Resolving
       /\ RecordsFor(finding.Id) = {}

C1_Witness ==
    /\ HasDetails
    /\ finding.AccessKeyId = SentinelAccessKeyId
    /\ finding.PrincipalId = SentinelPrincipalId
    /\ pc = "done"
    /\ called

\* C2 as stated: once the first lookup of a finding has returned exactly one
\* event whose payload parses and holds a userIdentity with an ARN, the
\* iteration ends with an output record for the finding carrying that ARN,
\* whatever a later lookup answers.
C2_Original ==
    (/\ HasDetails
     /\ ~Resolving
     /\ Len(lookups) >= 1
     /\ YieldsArn(lookups[1].resp))
    => \E i \in RecordsFor(finding.Id) :
          out[i].assumeRoleARN = ArnOf(lookups[1].resp)

\* C2 as amended: when the first lookup returns exactly one event whose
\* payload parses and holds a userIdentity with a non-empty ARN, and either
\* that identity names a non-empty userName or the follow-up lookup by the ARN
\* returns exactly one event, a record with that ARN is produced.
C2_ResolvedWithArn ==
    (/\ HasDetails
     /\ Len(lookups) >= 1
     /\ YieldsArn(lookups[1].resp)
     /\ ArnOf(lookups[1].resp) # ""
     /\ \/ NamesUser(lookups[1].resp)
        \/ Len(lookups) >= 2 /\ ExactlyOne(lookups[2].resp))
    => \E i \in RecordsFor(finding.Id) :
          out[i].assumeRoleARN = ArnOf(lookups[1].resp)

C2_Witness ==
    /\ HasDetails
    /\ Len(lookups) = 2
    /\ YieldsArn(lookups[1].resp)
    /\ ExactlyOne(lookups[2].resp)
    /\ lookups[2].resp.events[1].Username = Nil
    /\ \E i \in RecordsFor(finding.Id) : out[i].assumeRoleARN = RoleARN

\* C3: a finding resolved through the access-key path whose first event
\* yields an ARN but no username got exactly one further lookup, keyed
\* "ResourceName" with that ARN, and its record carries the top-level Username
\* of the event that lookup returned ("" when the field is absent), not a name
\* from that event's payload.
C3_UsernameFromSecondLookup ==
    \A i \in RecordsFor(finding.Id) :
        (/\ Len(lookups) >= 1
         /\ lookups[1].key = "AccessKeyId"
         /\ YieldsArn(lookups[1].resp)
         /\ ~NamesUser(lookups[1].resp))
        => /\ Len(lookups) = 2
           /\ lookups[2].key = "ResourceName"
           /\ lookups[2].value = ArnOf(lookups[1].resp)
           /\ ExactlyOne(lookups[2].resp)
           /\ out[i].username = StringValue(lookups[2].resp.events[1].Username)

C3_Witness ==
    /\ Len(lookups) = 2
    /\ lookups[1].key = "AccessKeyId"
    /\ ExactlyOne(lookups[2].resp)
    /\ NamesUser(lookups[2].resp)
    /\ lookups[2].resp.events[1].Username = "alice"
    /\ \E i \in RecordsFor(finding.Id) : out[i].username = "alice"

\* Where the walk stands once an iteration of the finding loop is over: at the
\* next finding of the page, else at the next page of the detector, else at
\* the next detector, else at the return.
WalkGoesOn ==
    IF findings # <<>> THEN pc = "finding"
    ELSE IF listFindingsNextToken \notin {Nil, ""} THEN pc = "listFindings"
    ELSE pc = "listFindings" \/ (pc = "done" /\ detectors = <<>>)

\* C4: when a lookup for a finding returns no event or more than one, the
\* finding gets no output record, an error line is written, the run is not
\* aborted and the walk goes on with what follows the finding.
C4_AmbiguousLookupSkipsFinding ==
    \A k \in 1..Len(lookups) :
        (~lookups[k].resp.err /\ Len(lookups[k].resp.events) # 1)
        => /\ k = Len(lookups)
           /\ RecordsFor(finding.Id) = {}
           /\ out # <<>>
           /\ out[Len(out)].kind = "error"
           /\ WalkGoesOn

C4_Witness ==
    /\ Len(lookups) = 1
    /\ lookups[1].resp.events = TwoEvents
    /\ pc = "finding"
    /\ findings # <<>>

\* The ListFindings requests made for the detector being walked.
ListCalls == SelectSeq(calls, LAMBDA c : c.op = "ListFindings")

\* C5: for a detector, the page requests issued number at most one more than
\* the non-empty continuation tokens returned, also when a request fails.
C5_Original ==
    Len(ListCalls)
      <= 1 + Cardinality({i \in 1..Len(ListCalls) :
                            ListCalls[i].ok /\ ListCalls[i].returned \notin {Nil, ""}})

\* C6: after a ListFindings, GetFindings or LookupEvents call has failed, the
\* same call is not issued again with the same arguments.
C6_Original ==
    /\ \A i, j \in 1..Len(calls) :
          (i < j /\ ~calls[i].ok)
          => ~(/\ calls[j].op = calls[i].op
               /\ calls[j].detector = calls[i].detector
               /\ calls[j].token = calls[i].token
               /\ calls[j].ids = calls[i].ids)
    /\ \A i, j \in 1..Len(lookups) :
          (i < j /\ lookups[i].resp.err)
          => ~(lookups[j].key = lookups[i].key /\ lookups[j].value = lookups[i].value)

\* The configuration is invalid: the partition is unknown, the region is empty
\* or no GuardDuty region of the partition, or the output mode is neither
\* "text" nor "json".
InvalidConfig ==
    \/ cfg.partition \notin {"aws", "aws-cn"}
    \/ cfg.region = ""
    \/ cfg.partition = "aws" /\ cfg.region \notin {"us-west-2", "us-east-1"}
    \/ cfg.partition = "aws-cn" /\ cfg.region \notin {"cn-north-1"}
    \/ cfg.output \notin {"text", "json"}

\* C7: with an invalid configuration the command ends with a configuration
\* error before anything outside the process is asked and without writing
\* anything.
C7_InvalidConfigStopsFirst ==
    InvalidConfig
    => /\ pc \in {"checkConfig", "configError"}
       /\ ~called
       /\ calls = <<>>
       /\ lookups = <<>>
       /\ out = <<>>

C7_Witness ==
    /\ pc = "configError"
    /\ cfg.partition = "aws"
    /\ cfg.region = "cn-north-1"
    /\ cfg.output = "json"

\* A resolution step of the current finding has failed: a lookup did not
\* return exactly one event, or the first event yields no ARN.
ResolutionFailed ==
    \/ \E k \in 1..Len(lookups) : ~ExactlyOne(lookups[k].resp)
    \/ Len(lookups) >= 1 /\ ~YieldsArn(lookups[1].resp)

\* C8: every output record carries a non-null, non-empty role ARN and a
\* non-null username, and a finding with a failed resolution step has no
\* record.
C8_NoPartialRecord ==
    /\ \A i \in 1..Len(out) :
          IsRecord(out[i])
          => /\ out[i].assumeRoleARN # Nil
             /\ out[i].assumeRoleARN # ""
             /\ out[i].username # Nil
    /\ ResolutionFailed => RecordsFor(finding.Id) = {}

C8_Witness ==
    /\ Len(lookups) = 2
    /\ \E i \in RecordsFor(finding.Id) :
          /\ out[i].kind = "json"
          /\ out[i].username = ""
          /\ out[i].assumeRoleARN = RoleARN

\* C9: with a usable access-key identifier the first lookup is keyed
\* "AccessKeyId" with it and the principal identifier is never looked up, also
\* when that lookup fails; the principal identifier is looked up, keyed
\* "ResourceName" and first, only when the access-key identifier is absent,
\* empty or the sentinel.
C9_AccessKeyFirst ==
    HasDetails
    => /\ (~Unusable(finding.AccessKeyId, SentinelAccessKeyId)
             /\ pc \notin {"getRoleAndUser", "panicked"})
          => /\ Len(lookups) >= 1
             /\ lookups[1].key = "AccessKeyId"
             /\ lookups[1].value = finding.AccessKeyId
       /\ \A k \in 1..Len(lookups) :
             lookups[k].value = finding.PrincipalId
             => /\ Unusable(finding.AccessKeyId, SentinelAccessKeyId)
                /\ lookups[k].key = "ResourceName"
                /\ k = 1

C9_Witness ==
    /\ HasDetails
    /\ finding.AccessKeyId = "AKIA123"
    /\ finding.PrincipalId = "AIDA456"
    /\ Len(lookups) = 1
    /\ lookups[1].resp.err
    /\ ~Resolving

\* The token the latest successful ListFindings answer before call i returned;
\* none before the first.
LastReturned(i) ==
    LET before == {j \in 1..(i - 1) : ListCalls[j].ok} IN
    IF before = {} THEN Nil
    ELSE ListCalls[CHOOSE j \in before : \A m \in before : m <= j].returned

\* C10: within a detector the first page request carries no token and every
\* later one the token of the latest successful page answer for that
\* detector; a new detector starts without a token.
C10_TokenFollowsLastAnswer ==
    /\ \A i \in 1..Len(calls) : calls[i].detector = calls[1].detector
    /\ \A i \in 1..Len(ListCalls) : ListCalls[i].token = LastReturned(i)
    /\ (pc \in {"listFindings", "getFindings", "finding"} \cup {"getRoleAndUser", "getUser"}
        /\ calls # <<>> /\ calls[1].detector = detectorID)
       => listFindingsNextToken = LastReturned(Len(ListCalls) + 1)
    /\ (pc = "listFindings" /\ (calls = <<>> \/ calls[1].detector # detectorID))
       => listFindingsNextToken = Nil

C10_Witness ==
    /\ detectorID = 2
    /\ Len(ListCalls) = 3
    /\ ~ListCalls[1].ok
    /\ ListCalls[2].returned = "t1"
    /\ ListCalls[3].token = "t1"
    /\ ListCalls[3].detector = 2

\* The printed findings of o stand in the order their findings were listed
\* (the Finding Source numbers findings as it lists them: detector by
\* detector, page by page, and within a page in the order of the page), and
\* no finding has two.
InListingOrder(o) ==
    \A i, j \in 1..Len(o) :
        (i < j /\ IsRecord(o[i]) /\ IsRecord(o[j])) => o[i].id < o[j].id

\* C11: findings are processed one at a time, in listing order, and records
\* appear in that order: every step leaves the records a subsequence of the
\* listed findings with at most one record per finding; a lookup is made only
\* for the finding in hand; the loop takes up a finding, always one listed
\* after the one before, only when no lookup of the finding in hand is
\* outstanding; and a record is printed only for the finding in hand, at the
\* end of its lookups.
C11_OneAtATimeInOrder ==
    [][/\ InListingOrder(out')
       /\ Len(lookups') > Len(lookups)
          => /\ Resolving
             /\ finding' = finding
             /\ Len(lookups') = Len(lookups) + 1
       /\ (finding' # finding \/ Len(lookups') < Len(lookups))
          => /\ ~Resolving
             /\ lookups' = <<>>
             /\ out' = out \/ ~IsRecord(out'[Len(out')])
       /\ (~finding.isNil /\ ~finding'.isNil /\ finding' # finding)
          => finding'.Id > finding.Id
       /\ (out' # out /\ IsRecord(out'[Len(out')]))
          => /\ Resolving
             /\ ~(pc' \in {"getRoleAndUser", "getUser"})
             /\ out'[Len(out')].id = finding.Id
             /\ out' = Append(out, out'[Len(out')])
      ]_vars

C11_Witness ==
    /\ detectorID = 2
    /\ Len(out) = 3
    /\ out[1].kind = "json" /\ out[1].id = 1
    /\ out[2].kind = "error"
    /\ out[3].kind = "json" /\ out[3].id = 2
    /\ Len(lookups) = 2

\* C12: whichever key the first lookup used, when it resolved to a non-empty
\* ARN and an empty username the next lookup of the finding is keyed
\* "ResourceName" with that ARN; when that second lookup fails the finding is
\* skipped without a record; and no finding gets more than two lookups.
C12_SecondLookupOnBothPaths ==
    /\ Len(lookups) <= 2
    /\ (/\ Len(lookups) >= 1
        /\ YieldsArn(lookups[1].resp)
        /\ ArnOf(lookups[1].resp) # ""
        /\ ~NamesUser(lookups[1].resp))
       => \/ Len(lookups) = 1 /\ pc = "getUser"
          \/ /\ Len(lookups) = 2
             /\ lookups[2].key = "ResourceName"
             /\ lookups[2].value = ArnOf(lookups[1].resp)
    /\ (Len(lookups) = 2 /\ ~ExactlyOne(lookups[2].resp))
       => /\ RecordsFor(finding.Id) = {}
          /\ out # <<>>
          /\ out[Len(out)].kind = "error"
          /\ ~Resolving

C12_Witness ==
    /\ HasDetails
    /\ Len(lookups) = 2
    /\ lookups[1].key = "ResourceName"
    /\ lookups[1].value = finding.PrincipalId
    /\ lookups[2].key = "ResourceName"
    /\ lookups[2].value = RoleARN
    /\ lookups[2].resp.err
    /\ RecordsFor(finding.Id) = {}

====
